---- MODULE Spec2Model ----
(***************************************************************************)
(* Model of XTAL::validate / XTAL::fail (src/emu/xtal.cpp): the binary     *)
(* search of a clock value in the table of known crystals, the one-slot    *)
(* cache last_correct_value and the error brackets xtal_error_low/high.    *)
(*                                                                         *)
(* Doubles are modelled as integers (every entry of known_xtals is an      *)
(* integer number of Hz) and DBL_EPSILON as 2^-eps_bits; the division in   *)
(* the tolerance test is exact rational arithmetic.  Table indices are the *)
(* 0-based indices of the C++ code, so known_xtals[slot] is tbl[slot + 1]. *)
(***************************************************************************)
EXTENDS Integers, Sequences, FiniteSets, TLC

\* Bounds of the generated tables: values 1..MaxVal, lengths 1..MaxLen, and
\* the scaled machine epsilon 2^-EpsBits used with them.
MaxVal == 8
MaxLen == 4
EpsBits == 3

\* The bit-fill lines are run on every last_index in 0..MaxIndex and on the
\* values around every power of two up to 2^MaxBit.
MaxIndex == 320
MaxBit == 29

\* The tables two threads share: values 1..MaxThreadVal, lengths
\* 1..MaxThreadLen.
MaxThreadVal == 5
MaxThreadLen == 3

\* DBL_EPSILON is 2^-52 for IEEE-754 doubles.
DblEpsilonBits == 52

VARIABLES
    table,               \* the table validate searches (known_xtals)
    eps_bits,            \* DBL_EPSILON = 2^-eps_bits
    last_correct_value,  \* XTAL::last_correct_value
    xtal_error_low,      \* XTAL::xtal_error_low
    xtal_error_high,     \* XTAL::xtal_error_high
    pc,                  \* "run", or "fatal" once fatalerror was called
    op,                  \* the last operation: "none", "validate_double", "validate_message"
    base_clock,          \* the argument of the last validate call (0: none yet)
    ret,                 \* what the last validate(double) returned (read once op # "none")
    reads,               \* the table indices the last validate(double) read, in order
    writes,              \* the static fields the last validate(double) assigned
    iters,               \* the iterations of while(step) in the last validate(double)
    last_true,           \* the argument of the most recent call that returned true (-1: none)
    full_message,        \* the suggestions XTAL::fail put in its message
    bitfill,             \* the locals last_index and ppow2 of a run of the bit-fill lines
    thr                  \* the threads running validate(message) concurrently

vars == <<table, eps_bits, last_correct_value, xtal_error_low, xtal_error_high,
          pc, op, base_clock, ret, reads, writes, iters, last_true,
          full_message, bitfill, thr>>

\* const double XTAL::known_xtals[] = { ... }
known_xtals_rows == <<
    32768, 38400, 384000, 400000, 430000, 455000, 512000, 600000,
    640000, 960000, 1000000, 1008000, 1056000, 1294400, 1689600, 1750000,
    1797100, 1843200, 2000000, 2012160, 2097152, 2457600, 2500000, 2950000,
    3000000, 3072000, 3120000, 3521280, 3570000, 3578640, 3579545, 3686400,
    3840000, 3900000, 4000000, 4028000, 4032000, 4096000, 4194304, 4224000,
    4410000, 4433610, 4433619, 4608000, 4915200, 5000000, 5068800, 5185000,
    5460000, 5529600, 5626000, 5670000, 5714300, 5911000, 5990400, 6000000,
    6144000, 6400000, 6500000, 6880000, 6900000, 7000000, 7159090, 7372800,
    7864300, 7987000, 8000000, 8200000, 8388000, 8448000, 8467200, 8664000,
    8700000, 8867236, 8867238, 8945000, 9216000, 9828000, 9830400, 9832000,
    9877680, 9987000, 10000000, 10137600, 10245000, 10380000, 10500000, 10595000,
    10644500, 10687500, 10694250, 10717200, 10730000, 10733000, 10738635, 10816000,
    10920000, 11000000, 11059200, 11200000, 11289000, 11400000, 11668800, 11800000,
    11980800, 12000000, 12057600, 12096000, 12288000, 12324000, 12432000, 12472500,
    12480000, 12500000, 12672000, 12800000, 12854400, 12936000, 12979200, 13300000,
    13330560, 13333000, 13400000, 13478400, 13495200, 13516800, 13608000, 13824000,
    14000000, 14112000, 14192640, 14218000, 14300000, 14314000, 14318181, 14705882,
    14745600, 14784000, 14916000, 14976000, 15000000, 15148800, 15288000, 15300720,
    15360000, 15400000, 15468480, 15582000, 15700000, 15897600, 15920000, 15974400,
    16000000, 16097280, 16128000, 16384000, 16400000, 16572000, 16588800, 16669800,
    16670000, 16777216, 16934400, 17064000, 17360000, 17550000, 17600000, 17734470,
    17734472, 17971200, 18000000, 18432000, 18480000, 18575000, 18720000, 18869600,
    19339600, 19600000, 19602000, 19660800, 19661400, 19923000, 19968000, 20000000,
    20160000, 20275200, 20625000, 20790000, 21000000, 21052600, 21060000, 21254400,
    21281370, 21300000, 21477272, 22000000, 22032000, 22096000, 22118400, 22321000,
    22464000, 22656000, 22896000, 23814000, 23961600, 24000000, 24073400, 24576000,
    24883200, 25000000, 25174800, 25200000, 25398360, 25400000, 25447000, 25590906,
    25593900, 25771500, 25920000, 26000000, 26366000, 26580000, 26601712, 26666000,
    26666666, 26686000, 26989200, 27000000, 27164000, 27210900, 27562000, 28000000,
    28322000, 28375160, 28475000, 28480000, 28636363, 28640000, 28700000, 29376000,
    29491200, 30000000, 30476100, 30800000, 31279500, 31684000, 31948800, 32000000,
    32147000, 32220000, 32317400, 32530400, 33000000, 33264000, 33333000, 33833000,
    33868800, 34000000, 34291712, 34846000, 35904000, 36000000, 37980000, 38769220,
    38863630, 39321600, 39710000, 40000000, 40210000, 42000000, 42105200, 42954545,
    43320000, 44100000, 44452800, 45000000, 45158000, 45619200, 45830400, 46615120,
    47736000, 48000000, 48384000, 48556800, 48654000, 48660000, 49152000, 49423500,
    50000000, 50113000, 50349000, 51200000, 52000000, 52832000, 53203400, 53693175,
    54000000, 55000000, 57272727, 58000000, 59292000, 60000000, 61440000, 64000000,
    66666700, 67737600, 68850000, 69551990, 72000000, 72576000, 73728000, 80000000,
    87183360, 100000000, 101491200, 200000000
>>

\* The table with one row entered twice.
known_xtals_dup == [known_xtals_rows EXCEPT ![101] = known_xtals_rows[100]]

known_xtals == known_xtals_rows

\* sizeof(known_xtals) / sizeof(known_xtals[0])
xtal_count(tbl) == Len(tbl)

---------------------------------------------------------------------------
\* Unsigned integer operators of the search.

Abs(x) == IF x < 0 THEN -x ELSE x

RECURSIVE Shr(_, _)
Shr(x, k) == IF k = 0 \/ x = 0 THEN x ELSE Shr(x \div 2, k - 1)

RECURSIVE BitOr(_, _)
BitOr(a, b) ==
    IF a = 0 THEN b
    ELSE IF b = 0 THEN a
    ELSE (IF a % 2 = 1 \/ b % 2 = 1 THEN 1 ELSE 0) + 2 * BitOr(a \div 2, b \div 2)

RECURSIVE BitXor(_, _)
BitXor(a, b) ==
    IF a = 0 THEN b
    ELSE IF b = 0 THEN a
    ELSE (IF a % 2 # b % 2 THEN 1 ELSE 0) + 2 * BitXor(a \div 2, b \div 2)

\* const unsigned int fill1 = last_index | (last_index >> 1); ... fill16
fill1(last_index) == BitOr(last_index, Shr(last_index, 1))

\* fill2 shifting by 1 again instead of by 2.
fill2ShiftOne(f1) == BitOr(f1, Shr(f1, 1))

fill2(f1) == BitOr(f1, Shr(f1, 2))
fill4(f2) == BitOr(f2, Shr(f2, 4))
fill8(f4) == BitOr(f4, Shr(f4, 8))
fill16(f8) == BitOr(f8, Shr(f8, 16))

\* The power of two above the filled value: ppow2 = fill16 + 1.
Ppow2Above(last_index) ==
    fill16(fill8(fill4(fill2(fill1(last_index))))) + 1

\* const unsigned int ppow2 = fill16 - (fill16 >> 1);
Ppow2(last_index) ==
    LET f16 == fill16(fill8(fill4(fill2(fill1(last_index)))))
    IN  f16 - Shr(f16, 1)

\* | in place of ^: slot | (step | (step >> 1)) leaves the step bit set.
RetractWithOr(slot, step) == BitOr(slot, BitOr(step, Shr(step, 1)))

\* slot ^ (step | (step >> 1))
Retract(slot, step) == BitXor(slot, BitOr(step, Shr(step, 1)))

\* slot | (step >> 1)
Advance(slot, step) == BitOr(slot, Shr(step, 1))

---------------------------------------------------------------------------
\* The tests of validate(double).

\* if(base_clock == last_correct_value) return true;
FastPathNever(clock, lcv) == FALSE

\* The cache compared with the tolerance of the table instead of ==.
FastPathTolerant(clock, lcv) ==
    lcv > 0 /\ Abs(clock - lcv) <= Shr(2 * clock, EpsBits)

FastPath(clock, lcv) == clock = lcv

\* diff = |(base_clock - sfreq) / sfreq|: relative to the wrong operand.
InToleranceOfEntry(clock, sfreq, eb) == Abs(clock - sfreq) <= Shr(2 * sfreq, eb)

\* diff = std::abs((base_clock - sfreq) / base_clock); diff <= 2 * DBL_EPSILON
\* For integers, |c - s| / c <= 2 / 2^eb  iff  |c - s| <= floor(2c / 2^eb).
InTolerance(clock, sfreq, eb) == Abs(clock - sfreq) <= Shr(2 * clock, eb)

\* if(base_clock > sfreq)
MoveRight(clock, sfreq) == clock > sfreq

\* The post-loop check left out.
PostLoopNever(clock, sfreq) == FALSE

\* if(base_clock == sfreq)
PostLoopMatch(clock, sfreq) == clock = sfreq

\* The post-loop match returning true without recording the value.
CacheKept(lcv, clock) == lcv

\* last_correct_value = base_clock; (post-loop match)
CacheOnPostLoopMatch(lcv, clock) == clock

\* while(step) { ... }: the slot the loop ends at, whether it returned from
\* inside the loop (hit), the indices it read and the iterations it ran
\* (n counts the iterations so far).
RECURSIVE SearchLoop(_, _, _, _, _, _, _)
SearchLoop(tbl, clock, eb, slot, step, rd, n) ==
    LET last_index == xtal_count(tbl) - 1
    IN  IF step = 0
        THEN [hit |-> FALSE, slot |-> slot, reads |-> rd, iters |-> n]
        ELSE IF slot > last_index
        THEN SearchLoop(tbl, clock, eb, Retract(slot, step), Shr(step, 1), rd, n + 1)
        ELSE LET sfreq == tbl[slot + 1]
             IN  IF InTolerance(clock, sfreq, eb)
                 THEN [hit |-> TRUE, slot |-> slot, reads |-> Append(rd, slot),
                       iters |-> n + 1]
                 ELSE IF MoveRight(clock, sfreq)
                 THEN SearchLoop(tbl, clock, eb, Advance(slot, step), Shr(step, 1),
                                 Append(rd, slot), n + 1)
                 ELSE SearchLoop(tbl, clock, eb, Retract(slot, step), Shr(step, 1),
                                 Append(rd, slot), n + 1)

Search(tbl, clock, eb) ==
    LET ppow2 == Ppow2(xtal_count(tbl) - 1)
    IN  SearchLoop(tbl, clock, eb, ppow2, ppow2, <<>>, 0)

\* known_xtals[i]; an index outside the array reads an arbitrary value.
ReadEntry(tbl, i, garbage) ==
    IF i >= 0 /\ i < xtal_count(tbl) THEN tbl[i + 1] ELSE garbage

---------------------------------------------------------------------------
\* The bracket recording of a failed validate(double).

\* Off by one: the entry at slot instead of the one below it.
ErrorLowAtSlot(tbl, slot, garbage) == ReadEntry(tbl, slot, garbage)

\* if(slot) xtal_error_low = known_xtals[slot-1]; else xtal_error_low = 0;
ErrorLowBelow(tbl, slot, garbage) ==
    IF slot # 0 THEN ReadEntry(tbl, slot - 1, garbage) ELSE 0

\* if(slot < last_index) xtal_error_high = known_xtals[slot+1]; else xtal_error_high = 0;
ErrorHighAbove(tbl, slot, garbage) ==
    IF slot < xtal_count(tbl) - 1 THEN ReadEntry(tbl, slot + 1, garbage) ELSE 0

\* Only the side that has a real neighbour is assigned; the other keeps its
\* old value.
BracketWritesReal(tbl, slot, below) ==
    IF below
    THEN {"xtal_error_high"} \cup (IF slot # 0 THEN {"xtal_error_low"} ELSE {})
    ELSE {"xtal_error_low"} \cup
         (IF slot < xtal_count(tbl) - 1 THEN {"xtal_error_high"} ELSE {})

\* The fields the failure path assigns: both branches of both if/else
\* statements assign, so both fields are written on every failure.
BracketWrites(tbl, slot, below) == {"xtal_error_low", "xtal_error_high"}

\* bool XTAL::validate(double base_clock): the return value, the static
\* fields after the call, and the reads and writes it made.
Validate(tbl, eb, lcv, low, high, clock, garbage) ==
    IF FastPath(clock, lcv)
    THEN [ret |-> TRUE, last_correct_value |-> lcv, xtal_error_low |-> low,
          xtal_error_high |-> high, reads |-> <<>>, writes |-> {}, iters |-> 0]
    ELSE
    LET s == Search(tbl, clock, eb)
    IN  IF s.hit
        THEN [ret |-> TRUE, last_correct_value |-> clock, xtal_error_low |-> low,
              xtal_error_high |-> high, reads |-> s.reads,
              writes |-> {"last_correct_value"}, iters |-> s.iters]
        ELSE
        LET slot  == s.slot
            sfreq == ReadEntry(tbl, slot, garbage)
            rd    == Append(s.reads, slot)
        IN  IF PostLoopMatch(clock, sfreq)
            THEN [ret |-> TRUE,
                  last_correct_value |-> CacheOnPostLoopMatch(lcv, clock),
                  xtal_error_low |-> low, xtal_error_high |-> high,
                  reads |-> rd, writes |-> {"last_correct_value"},
                  iters |-> s.iters]
            ELSE
            LET below == clock < sfreq
                w     == BracketWrites(tbl, slot, below)
                nlow  == IF below THEN ErrorLowBelow(tbl, slot, garbage) ELSE sfreq
                nhigh == IF below THEN sfreq ELSE ErrorHighAbove(tbl, slot, garbage)
                nrd   == IF below
                         THEN (IF slot # 0 THEN Append(rd, slot - 1) ELSE rd)
                         ELSE (IF slot < xtal_count(tbl) - 1
                               THEN Append(rd, slot + 1) ELSE rd)
            IN  [ret |-> FALSE, last_correct_value |-> lcv,
                 xtal_error_low |-> IF "xtal_error_low" \in w THEN nlow ELSE low,
                 xtal_error_high |-> IF "xtal_error_high" \in w THEN nhigh ELSE high,
                 reads |-> nrd, writes |-> w, iters |-> s.iters]

---------------------------------------------------------------------------
\* XTAL::validate(const char *) and XTAL::fail.

\* if(validate(m_base_clock)) fail(...): the negation dropped.
FailsOnMatch(r) == r

\* if(!validate(m_base_clock)) fail(m_base_clock, message);
FailsOnMismatch(r) == ~r

\* || in place of &&.
SuggestionsEither(low, high) ==
    IF low # 0 \/ high # 0 THEN <<low, high>>
    ELSE <<IF low # 0 THEN low ELSE high>>

\* The values XTAL::fail formats after "Did you mean".
Suggestions(low, high) ==
    IF low # 0 /\ high # 0 THEN <<low, high>>
    ELSE <<IF low # 0 THEN low ELSE high>>

---------------------------------------------------------------------------
\* The state machine.

\* The strictly ascending tables of positive values, lengths 1..MaxLen.
RECURSIVE SortedSeq(_)
SortedSeq(S) ==
    IF S = {} THEN <<>>
    ELSE LET m == CHOOSE x \in S : \A y \in S : x <= y
         IN  <<m>> \o SortedSeq(S \ {m})

SortedTables ==
    {SortedSeq(S) : S \in {T \in SUBSET (1..MaxVal) : T # {} /\ Cardinality(T) <= MaxLen}}

\* The clocks the callers pass with the compiled-in table: entries,
\* neighbours of entries, values below the first and above the last entry.
KnownClocks ==
    {known_xtals[1] - 1, known_xtals[1], known_xtals[1] + 1, known_xtals[2],
     known_xtals[100] + 1, known_xtals[200], known_xtals[201] - 1,
     known_xtals[315], known_xtals[316], known_xtals[316] + 1}

Clocks(tbl) == IF tbl = known_xtals THEN KnownClocks ELSE 1..MaxVal

\* What an out-of-bounds read of the post-loop known_xtals[slot] can yield.
Garbage(tbl, eb, clock) ==
    LET s == Search(tbl, clock, eb)
    IN  IF ~s.hit /\ s.slot >= xtal_count(tbl) THEN 0..MaxVal ELSE {0}

InitState ==
    /\ last_correct_value = -1
    /\ xtal_error_low = 0
    /\ xtal_error_high = 0
    /\ pc = "run"
    /\ op = "none"
    /\ base_clock = 0
    /\ ret = FALSE
    /\ reads = <<>>
    /\ writes = {}
    /\ iters = 0
    /\ last_true = -1
    /\ full_message = <<>>

\* No separate run of the bit-fill lines, and no threads.
BitfillIdle ==
    /\ bitfill = [last_index |-> 0, ppow2 |-> 0, pc |-> "idle"]
    /\ thr = <<>>

Init ==
    /\ table \in SortedTables
    /\ eps_bits = EpsBits
    /\ InitState
    /\ BitfillIdle

InitKnown ==
    /\ table = known_xtals
    /\ eps_bits = DblEpsilonBits
    /\ InitState
    /\ BitfillIdle

\* A call that returns true also clears the brackets.
CallResetting(clock, r) ==
    /\ base_clock' = clock
    /\ ret' = r.ret
    /\ last_correct_value' = r.last_correct_value
    /\ xtal_error_low' = IF r.ret THEN 0 ELSE r.xtal_error_low
    /\ xtal_error_high' = IF r.ret THEN 0 ELSE r.xtal_error_high
    /\ reads' = r.reads
    /\ writes' = r.writes
    /\ iters' = r.iters
    /\ last_true' = IF r.ret THEN clock ELSE last_true
    /\ UNCHANGED <<table, eps_bits, bitfill, thr>>

\* The effect of validate(double) on the state.
Call(clock, r) ==
    /\ base_clock' = clock
    /\ ret' = r.ret
    /\ last_correct_value' = r.last_correct_value
    /\ xtal_error_low' = r.xtal_error_low
    /\ xtal_error_high' = r.xtal_error_high
    /\ reads' = r.reads
    /\ writes' = r.writes
    /\ iters' = r.iters
    /\ last_true' = IF r.ret THEN clock ELSE last_true
    /\ UNCHANGED <<table, eps_bits, bitfill, thr>>

\* A caller calls the static XTAL::validate(double).
ValidateDouble(clock) ==
    /\ pc = "run"
    /\ \E g \in Garbage(table, eps_bits, clock) :
         LET r == Validate(table, eps_bits, last_correct_value, xtal_error_low,
                           xtal_error_high, clock, g)
         IN  /\ Call(clock, r)
             /\ op' = "validate_double"
             /\ UNCHANGED <<pc, full_message>>

\* A caller calls XTAL::validate(message) on an XTAL whose m_base_clock is
\* clock; XTAL::fail builds the message and calls fatalerror.
ValidateMessage(clock) ==
    /\ pc = "run"
    /\ \E g \in Garbage(table, eps_bits, clock) :
         LET r == Validate(table, eps_bits, last_correct_value, xtal_error_low,
                           xtal_error_high, clock, g)
         IN  /\ Call(clock, r)
             /\ op' = "validate_message"
             /\ IF FailsOnMismatch(r.ret)
                THEN /\ full_message' = Suggestions(r.xtal_error_low, r.xtal_error_high)
                     /\ pc' = "fatal"
                ELSE UNCHANGED <<pc, full_message>>

Next ==
    \/ \E clock \in Clocks(table) : ValidateDouble(clock)
    \/ \E clock \in Clocks(table) : ValidateMessage(clock)

Spec == Init /\ [][Next]_vars

SpecKnown == InitKnown /\ [][Next]_vars

---------------------------------------------------------------------------
\* The bit-fill lines of validate(double) alone, for table sizes that the
\* generated tables do not reach.

RECURSIVE Pow2(_)
Pow2(k) == IF k = 0 THEN 1 ELSE 2 * Pow2(k - 1)

\* The values of last_index the lines are run on; 2147483647 is 2^31 - 1.
LastIndexes ==
    (0..MaxIndex)
    \cup {Pow2(k) - 1 : k \in 1..MaxBit}
    \cup {Pow2(k) : k \in 1..MaxBit}
    \cup {Pow2(k) + 1 : k \in 1..MaxBit}
    \cup {2147483647}

InitFill ==
    /\ table = <<1>>
    /\ eps_bits = EpsBits
    /\ InitState
    /\ \E n \in LastIndexes : bitfill = [last_index |-> n, ppow2 |-> 0, pc |-> "start"]
    /\ thr = <<>>

\* const unsigned int fill1 = ...; ... const unsigned int ppow2 = ...;
ComputePpow2 ==
    /\ bitfill.pc = "start"
    /\ bitfill' = [bitfill EXCEPT !.ppow2 = Ppow2(bitfill.last_index), !.pc = "done"]
    /\ UNCHANGED <<table, eps_bits, last_correct_value, xtal_error_low,
                   xtal_error_high, pc, op, base_clock, ret, reads, writes,
                   iters, last_true, full_message, thr>>

NextFill == ComputePpow2

SpecFill == InitFill /\ [][NextFill]_vars

---------------------------------------------------------------------------
\* Two threads that each call validate(message) on an XTAL of their own and
\* share the statics.  Every read and write of a static is a step of its own;
\* where XTAL::fail names a static a second time, the build may load it again
\* or use the value it loaded before.

Threads == {1, 2}

ThreadTables ==
    {SortedSeq(S) : S \in {T \in SUBSET (1..MaxThreadVal) :
                              T # {} /\ Cardinality(T) <= MaxThreadLen}}

\* The variables of the single-threaded callers, unused here.
seq_vars == <<pc, op, base_clock, ret, reads, writes, iters, last_true,
              full_message, bitfill>>

InitThreads ==
    /\ table \in ThreadTables
    /\ eps_bits = DblEpsilonBits
    /\ InitState
    /\ bitfill = [last_index |-> 0, ppow2 |-> 0, pc |-> "idle"]
    /\ thr \in [Threads -> {[pc |-> "call", clock |-> c, w |-> <<>>, lo |-> -1,
                             hi |-> -1, msg |-> <<>>] : c \in 1..MaxThreadVal}]

\* fatalerror ends the process: no thread takes a step after it.
Alive == \A u \in Threads : thr[u].pc # "fatal"

\* The assignments of the failure path in program order: the branch
\* base_clock < sfreq assigns xtal_error_low first, the other branch
\* xtal_error_high first.
BracketAssignments(tbl, eb, clock, r, garbage) ==
    LET s     == Search(tbl, clock, eb)
        sfreq == ReadEntry(tbl, s.slot, garbage)
        wl    == [f |-> "xtal_error_low", v |-> r.xtal_error_low]
        wh    == [f |-> "xtal_error_high", v |-> r.xtal_error_high]
    IN  IF clock < sfreq THEN <<wl, wh>> ELSE <<wh, wl>>

\* validate(m_base_clock) up to its first assignment of a bracket: the fast
\* path, the search and the post-loop check.
T_Validate(t) ==
    /\ Alive
    /\ thr[t].pc = "call"
    /\ \E g \in Garbage(table, eps_bits, thr[t].clock) :
         LET r == Validate(table, eps_bits, last_correct_value, xtal_error_low,
                           xtal_error_high, thr[t].clock, g)
         IN  IF FailsOnMismatch(r.ret)
             THEN /\ thr' = [thr EXCEPT ![t].pc = "write",
                                        ![t].w = BracketAssignments(table, eps_bits,
                                                     thr[t].clock, r, g)]
                  /\ UNCHANGED last_correct_value
             ELSE /\ thr' = [thr EXCEPT ![t].pc = "returned"]
                  /\ last_correct_value' = r.last_correct_value
    /\ UNCHANGED <<table, eps_bits, xtal_error_low, xtal_error_high, seq_vars>>

\* xtal_error_low = ...; or xtal_error_high = ...; the next assignment of the
\* failure path.  After the second one validate returns false and
\* validate(message) calls fail.
T_Write(t) ==
    /\ Alive
    /\ thr[t].pc = "write"
    /\ LET a == Head(thr[t].w)
       IN  /\ xtal_error_low' = IF a.f = "xtal_error_low" THEN a.v ELSE xtal_error_low
           /\ xtal_error_high' = IF a.f = "xtal_error_high" THEN a.v ELSE xtal_error_high
    /\ thr' = [thr EXCEPT ![t].w = Tail(thr[t].w),
                          ![t].pc = IF Len(thr[t].w) = 1 THEN "test_low" ELSE "write"]
    /\ UNCHANGED <<table, eps_bits, last_correct_value, seq_vars>>

\* if(xtal_error_low && ...
T_TestLow(t) ==
    /\ Alive
    /\ thr[t].pc = "test_low"
    /\ thr' = [thr EXCEPT ![t].lo = xtal_error_low,
                          ![t].pc = IF xtal_error_low # 0 THEN "test_high"
                                    ELSE "one_test"]
    /\ UNCHANGED <<table, eps_bits, last_correct_value, xtal_error_low,
                   xtal_error_high, seq_vars>>

\* ... && xtal_error_high)
T_TestHigh(t) ==
    /\ Alive
    /\ thr[t].pc = "test_high"
    /\ thr' = [thr EXCEPT ![t].hi = xtal_error_high,
                          ![t].pc = IF xtal_error_high # 0 THEN "both_low"
                                    ELSE "one_test"]
    /\ UNCHANGED <<table, eps_bits, last_correct_value, xtal_error_low,
                   xtal_error_high, seq_vars>>

\* " Did you mean %.0f or %.0f?", xtal_error_low, ...
T_BothLow(t) ==
    /\ Alive
    /\ thr[t].pc = "both_low"
    /\ \E l \in {xtal_error_low, thr[t].lo} :
         thr' = [thr EXCEPT ![t].msg = <<l>>, ![t].pc = "both_high"]
    /\ UNCHANGED <<table, eps_bits, last_correct_value, xtal_error_low,
                   xtal_error_high, seq_vars>>

\* ..., xtal_error_high); fatalerror
T_BothHigh(t) ==
    /\ Alive
    /\ thr[t].pc = "both_high"
    /\ \E h \in {xtal_error_high, thr[t].hi} :
         thr' = [thr EXCEPT ![t].msg = Append(thr[t].msg, h), ![t].pc = "fatal"]
    /\ UNCHANGED <<table, eps_bits, last_correct_value, xtal_error_low,
                   xtal_error_high, seq_vars>>

\* " Did you mean %.0f?", xtal_error_low ? ...
T_OneTest(t) ==
    /\ Alive
    /\ thr[t].pc = "one_test"
    /\ \E l \in {xtal_error_low, thr[t].lo} :
         thr' = [thr EXCEPT ![t].lo = l,
                            ![t].pc = IF l # 0 THEN "one_low" ELSE "one_high"]
    /\ UNCHANGED <<table, eps_bits, last_correct_value, xtal_error_low,
                   xtal_error_high, seq_vars>>

\* ... ? xtal_error_low : ...; fatalerror
T_OneLow(t) ==
    /\ Alive
    /\ thr[t].pc = "one_low"
    /\ \E l \in {xtal_error_low, thr[t].lo} :
         thr' = [thr EXCEPT ![t].msg = <<l>>, ![t].pc = "fatal"]
    /\ UNCHANGED <<table, eps_bits, last_correct_value, xtal_error_low,
                   xtal_error_high, seq_vars>>

\* ... : xtal_error_high); fatalerror
T_OneHigh(t) ==
    /\ Alive
    /\ thr[t].pc = "one_high"
    /\ \E h \in {xtal_error_high} \cup (IF thr[t].hi # -1 THEN {thr[t].hi} ELSE {}) :
         thr' = [thr EXCEPT ![t].msg = <<h>>, ![t].pc = "fatal"]
    /\ UNCHANGED <<table, eps_bits, last_correct_value, xtal_error_low,
                   xtal_error_high, seq_vars>>

NextThreads ==
    \E t \in Threads :
        \/ T_Validate(t)
        \/ T_Write(t)
        \/ T_TestLow(t)
        \/ T_TestHigh(t)
        \/ T_BothLow(t)
        \/ T_BothHigh(t)
        \/ T_OneTest(t)
        \/ T_OneLow(t)
        \/ T_OneHigh(t)

SpecThreads == InitThreads /\ [][NextThreads]_vars

---------------------------------------------------------------------------
\* Properties.

TableValues == {table[i] : i \in 1..Len(table)}

\* Called at least once so far.
Called == op # "none"

\* The last validate(double) returned b.
Returned(b) == Called /\ ret = b

\* |v - s| / v <= 2 * DBL_EPSILON, as a relation between a candidate and an entry.
NearEntry(v, s) == Abs(v - s) * (2 ^ eps_bits) <= 2 * v

Matches(v) == \E s \in TableValues : NearEntry(v, s)

Max(S) == CHOOSE x \in S : \A y \in S : y <= x
Min(S) == CHOOSE x \in S : \A y \in S : x <= y

\* The greatest entry strictly below v and the least strictly above it; 0: none.
GreatestBelow(v) ==
    LET S == {s \in TableValues : s < v} IN IF S = {} THEN 0 ELSE Max(S)
LeastAbove(v) ==
    LET S == {s \in TableValues : s > v} IN IF S = {} THEN 0 ELSE Min(S)

\* C1: validate of a table entry returns true, at every index of every
\* strictly ascending table, from every state of the cache and the brackets.
C1_EntryValidates ==
    (Called /\ base_clock \in TableValues) => Returned(TRUE)

\* Index 0 of a table of several entries was accepted by the search (not by
\* the cache), after an earlier failed call had set the brackets.
C1_Witness ==
    /\ Returned(TRUE)
    /\ Len(table) > 1
    /\ base_clock = table[1]
    /\ "last_correct_value" \in writes
    /\ xtal_error_low # 0

\* C2: a candidate that is not within the relative tolerance of any entry is
\* rejected, whatever calls came before (cache and sentinel included).
C2_NoMatchRejected ==
    (Called /\ ~Matches(base_clock)) => Returned(FALSE)

\* A candidate near no entry was rejected after an earlier call had filled
\* the cache.
C2_Witness ==
    /\ Returned(FALSE)
    /\ ~Matches(base_clock)
    /\ last_correct_value > 0

\* C3: a candidate that differs from an entry but is within the relative
\* tolerance of it is accepted, at every index (index 0 included).
C3_NearEntryAccepted ==
    (Called /\ base_clock \notin TableValues /\ Matches(base_clock)) => Returned(TRUE)

\* C4: after a failed validate the brackets are the greatest entry below and
\* the least entry above the candidate (0 where there is none), and when both
\* are entries they are adjacent and enclose the candidate.
C4_BracketsNearest ==
    Returned(FALSE) =>
        /\ xtal_error_low = GreatestBelow(base_clock)
        /\ xtal_error_high = LeastAbove(base_clock)
        /\ (xtal_error_low # 0 /\ xtal_error_high # 0) =>
              /\ xtal_error_low < base_clock
              /\ base_clock < xtal_error_high
              /\ \E i \in 1..(Len(table) - 1) :
                    table[i] = xtal_error_low /\ table[i + 1] = xtal_error_high

\* A candidate in a gap of the table was rejected with both brackets set.
C4_Witness ==
    /\ Returned(FALSE)
    /\ xtal_error_low # 0
    /\ xtal_error_high # 0
    /\ xtal_error_high - xtal_error_low > 2

\* C5: the message of XTAL::fail carries one suggestion when the candidate is
\* below the first or above the last entry, both neighbours when it lies
\* between two entries, and never the value 0.
C5_Suggestions ==
    pc = "fatal" =>
        LET first == table[1]
            last  == table[Len(table)]
        IN  /\ base_clock < first => full_message = <<first>>
            /\ base_clock > last => full_message = <<last>>
            /\ \A i \in 1..(Len(table) - 1) :
                 (table[i] < base_clock /\ base_clock < table[i + 1]) =>
                     full_message = <<table[i], table[i + 1]>>
            /\ \A k \in 1..Len(full_message) : full_message[k] # 0

\* XTAL::fail ran for a candidate above the last entry.
C5_Witness ==
    /\ pc = "fatal"
    /\ base_clock > table[Len(table)]
    /\ full_message = <<table[Len(table)]>>

\* C6: when XTAL::fail runs, both bracket fields were assigned by the
\* validate(double) call made just before it on the same candidate, which
\* returned false: neither field is left over from an older call.
C6_FailReadsFreshBrackets ==
    pc = "fatal" =>
        /\ op = "validate_message"
        /\ Returned(FALSE)
        /\ {"xtal_error_low", "xtal_error_high"} \subseteq writes
        /\ xtal_error_low = 0 \/ xtal_error_low < base_clock
        /\ xtal_error_high = 0 \/ base_clock < xtal_error_high
        /\ \A k \in 1..Len(full_message) :
             full_message[k] \in {xtal_error_low, xtal_error_high}

\* XTAL::fail ran after an earlier successful call, for a candidate whose
\* low bracket is the sentinel.
C6_Witness ==
    /\ pc = "fatal"
    /\ last_true # -1
    /\ xtal_error_low = 0
    /\ xtal_error_high # 0

\* C7: the program is terminated exactly when validate(message) ran on a
\* clock that validate(double) rejects, and nothing runs after that.
C7_FatalOnlyFromMessage ==
    /\ [](pc = "fatal" <=> (op = "validate_message" /\ Returned(FALSE)))
    /\ [][pc # "fatal"]_vars

\* validate(double) rejected a clock and the program went on; a later
\* validate(message) on a matching clock returned normally.
C7_Witness ==
    /\ pc = "run"
    /\ op = "validate_message"
    /\ Returned(TRUE)
    /\ xtal_error_high # 0

\* C8: a validate of the value that the call just before accepted returns
\* true without reading the table or writing a static field.
C8_RepeatTakesFastPath ==
    [][(Returned(TRUE) /\ base_clock' = base_clock) =>
          /\ ret' = TRUE
          /\ reads' = <<>>
          /\ writes' = {}
          /\ UNCHANGED <<last_correct_value, xtal_error_low, xtal_error_high>>]_vars

\* A call returned true without a read or a write.
C8_Witness ==
    /\ Returned(TRUE)
    /\ reads = <<>>
    /\ writes = {}
    /\ base_clock = last_correct_value

\* C9: last_correct_value is -1 until a call returns true and then the
\* argument of the most recent call that returned true.
C9_CacheIsLastAccepted == last_correct_value = last_true

\* A failed call after an accepted one left the cache alone.
C9_Witness ==
    /\ Returned(FALSE)
    /\ last_true # -1
    /\ last_correct_value = last_true
    /\ base_clock # last_true

\* C10: known_xtals has 316 entries from 32768 to 200000000, all positive and
\* strictly ascending.
C10_TableAscending ==
    /\ Len(table) = 316
    /\ table[1] = 32768
    /\ table[316] = 200000000
    /\ table[1] > 0
    /\ \A i \in 1..315 : table[i] < table[i + 1]

\* The search found the last entry of the compiled-in table.
C10_Witness ==
    /\ table = known_xtals
    /\ Returned(TRUE)
    /\ base_clock = table[316]
    /\ reads # <<>>

RECURSIVE IsPowerOfTwo(_)
IsPowerOfTwo(p) == p = 1 \/ (p > 1 /\ p % 2 = 0 /\ IsPowerOfTwo(p \div 2))

\* C11: ppow2 is the largest power of two that is at most last_index, and 0
\* for last_index = 0, where the loop then does not run and the search ends
\* at slot 0 without a read.
C11_Ppow2LargestPower ==
    bitfill.pc = "done" =>
        LET n == bitfill.last_index
            p == bitfill.ppow2
        IN  IF n = 0
            THEN /\ p = 0
                 /\ \A v \in 1..MaxVal, c \in 1..MaxVal :
                      SearchLoop(<<v>>, c, EpsBits, p, p, <<>>, 0)
                          = [hit |-> FALSE, slot |-> 0, reads |-> <<>>, iters |-> 0]
            ELSE /\ IsPowerOfTwo(p)
                 /\ p <= n
                 /\ n \div 2 < p

\* The lines ran on the last index of the compiled-in table.
C11_Witness ==
    /\ bitfill.pc = "done"
    /\ bitfill.last_index = Len(known_xtals) - 1
    /\ bitfill.ppow2 = 256

\* floor(log2(n)) + 1 for n >= 1, and 0 for n = 0.
RECURSIVE BitLength(_)
BitLength(n) == IF n = 0 THEN 0 ELSE 1 + BitLength(n \div 2)

\* C12: validate(double) ends after at most floor(log2(last_index)) + 1
\* iterations of the loop (none for a one-entry table), reads at most one
\* entry per iteration in the loop, and returns a boolean.
C12_LoopBounded ==
    Called =>
        /\ iters <= BitLength(Len(table) - 1)
        /\ Len(reads) <= iters + 2
        /\ ret \in BOOLEAN

\* A search of a table of at least three entries ran the full number of
\* iterations and returned false.
C12_Witness ==
    /\ Returned(FALSE)
    /\ Len(table) >= 3
    /\ iters = BitLength(Len(table) - 1)

\* C13: every index validate(double) uses to read known_xtals, in the loop,
\* after it and for the neighbours slot-1 and slot+1, is within
\* 0 .. last_index.
C13_ReadsInBounds ==
    \A k \in 1..Len(reads) : reads[k] >= 0 /\ reads[k] <= Len(table) - 1

\* In a three-entry table the search stepped to slot 3, past the end, was
\* retracted to slot 2 without a read and read slot 2 after the loop.
C13_Witness ==
    /\ Returned(FALSE)
    /\ Len(table) = 3
    /\ iters = 2
    /\ reads = <<2, 2>>

\* C14: a call returns what a validate without history (cache at the -1
\* sentinel, brackets at 0) returns for the same value and table, and on
\* false it records the same brackets.
C14_CacheTransparent ==
    Called =>
        LET r == Validate(table, eps_bits, -1, 0, 0, base_clock, 0)
        IN  /\ ret = r.ret
            /\ ~ret => /\ xtal_error_low = r.xtal_error_low
                       /\ xtal_error_high = r.xtal_error_high

\* A call failed while the cache held an accepted value, with a bracket on
\* both sides.
C14_Witness ==
    /\ Returned(FALSE)
    /\ last_correct_value # -1
    /\ xtal_error_low # 0
    /\ xtal_error_high # 0

\* C16: a validate(double) that returns true leaves xtal_error_low and
\* xtal_error_high as they were; they are not reset.
C16_SuccessKeepsBrackets ==
    [][ret' = TRUE => UNCHANGED <<xtal_error_low, xtal_error_high>>]_vars

\* After a failed call set a bracket, a search (not the fast path) accepted
\* a value and the bracket is still stored.
C16_Witness ==
    /\ Returned(TRUE)
    /\ "last_correct_value" \in writes
    /\ xtal_error_high # 0
    /\ base_clock > xtal_error_high

\* The brackets validate(double) records for v, and what fail prints from them.
BracketsOf(v) == {GreatestBelow(v), LeastAbove(v)}
OwnMessage(v) == Suggestions(GreatestBelow(v), LeastAbove(v))

\* C15: with two threads in validate(message), every value a thread's fail
\* prints is a bracket recorded for the clock of one of the two threads (or
\* the 0 the statics hold), not necessarily its own; only while the other
\* thread has not started is the message the one for the thread's own clock.
C15_FailReadsEitherThread ==
    \A t \in Threads :
        thr[t].pc = "fatal" =>
            /\ \A k \in 1..Len(thr[t].msg) :
                 thr[t].msg[k] \in {0} \cup UNION {BracketsOf(thr[u].clock) : u \in Threads}
            /\ (\A u \in Threads \ {t} : thr[u].pc = "call") =>
                 thr[t].msg = OwnMessage(thr[t].clock)

\* A thread's fail printed the low bracket of its own clock and the high
\* bracket of the other thread's clock, which is not a bracket of its own.
C15_Witness ==
    \E t \in Threads : \E u \in Threads \ {t} :
        /\ thr[t].pc = "fatal"
        /\ Len(thr[t].msg) = 2
        /\ thr[t].msg[1] # 0
        /\ thr[t].msg[2] # 0
        /\ thr[t].msg[1] = GreatestBelow(thr[t].clock)
        /\ thr[t].msg[2] = LeastAbove(thr[u].clock)
        /\ thr[t].msg[2] \notin BracketsOf(thr[t].clock)
        /\ thr[t].msg[1] \notin BracketsOf(thr[u].clock)

====
